---- MODULE Spec2Model ----
(***************************************************************************)
(* HorizCoin payment-rail core.                                            *)
(*                                                                         *)
(* Independent programs are modelled, each with its own specification:     *)
(*                                                                         *)
(*   SpecBank    src/bank_core.py: the in-process account dictionary with  *)
(*               its /create-account and /transfer handlers.  FastAPI      *)
(*               runs plain `def` handlers on a thread pool, so each       *)
(*               handler call is a thread whose position is tracked line   *)
(*               by line.                                                  *)
(*   SpecLedger  src/. ledger/tigerbeetle_client.py: the ledger gateway    *)
(*               (create_account, create_large_deposit) in front of the    *)
(*               external double-entry ledger.  The ledger service itself  *)
(*               is not part of the repository; its behaviour is taken     *)
(*               from sections 4.3 and 6 of the specification.             *)
(*                                                                         *)
(*   SpecIban    the identifier generators: generate_iban of the payments  *)
(*               package, generate_real_iban of src/iban_generator.py and  *)
(*               the identifier bank_core.create_account builds.           *)
(*   SpecPacs    src/. ledger/. payments/pacs008_generator.py: one call of *)
(*               generate_pacs_008 and the document it builds.             *)
(*   SpecCamt    src/. ledger/. payments/payments/camt053_reconciler.py:   *)
(*               one call of reconcile_camt053 on a statement, and a       *)
(*               second call on the same statement.                        *)
(*   SpecExtractor  src/mobile-data-extraction/src/extractor.py: method    *)
(*               calls on one MobileDataExtractor object.                  *)
(*   SpecObserver  src/mobile-data-extraction/src/observer.py: method      *)
(*               calls on one DataObserver object, alert ids being         *)
(*               readings of the wall clock.                               *)
(*   SpecController  src/controller.py: runs of main, call by call.        *)
(*                                                                         *)
(* SpecIban, SpecPacs and SpecCamt are about stateless functions: a run is *)
(* one call, with any arguments, and the state records the arguments and   *)
(* the result.                                                             *)
(*                                                                         *)
(* Amounts are integers (minor units).  bank_core.py stores balances as    *)
(* Python floats; for the small whole amounts used here float arithmetic   *)
(* is exact, so integers give the same values.                             *)
(***************************************************************************)
EXTENDS Integers, Sequences, FiniteSets, TLC

\* ------------------------------------------------------------------ bounds

\* Largest amount a caller passes to a transfer or deposit.
MaxAmount == 2

\* Number of /transfer calls the bank handles in one run.
MaxTransferCalls == 3

\* Number of /create-account calls the bank handles in one run.
MaxCreateCalls == 2

\* Account ids a caller of the gateway uses: 1..MaxAccountId.
MaxAccountId == 2

\* Number of create_large_deposit calls (uuid4 draws) in one run.
MaxDeposits == 2

\* Longest country code a caller passes to generate_iban, in characters.
MaxCountryLen == 2

\* Longest bank code, and longest account number, a caller passes, in characters.
MaxCodeLen == 2

\* Largest of the small amounts passed to generate_pacs_008, in thousandths.
MaxThousandths == 30

\* Longest remittance text passed to generate_pacs_008, in characters.
MaxRemittanceLen == 142

\* Largest number of entries of a statement passed to reconcile_camt053.
MaxEntries == 2

\* Number of method calls made on the extractor object in one run.
MaxExtractorCalls == 4

\* Number of method calls made on the observer object in one run.
MaxObserverCalls == 4

\* Number of runs of the controller.
MaxRuns == 2

\* ------------------------------------------------------------ bank_core.py

VARIABLES
    accounts,       \* bank_core.accounts: dict iban -> Account object (an index of heap)
    heap,           \* the Account objects ever constructed: heap[k] is object k's balance
    th,             \* the handler threads of /transfer: position, arguments, locals
    create_status,  \* the response of the last /create-account call
    expected,       \* history: expected[k] is object k's balance had every applied leg been atomic
    create_seen,    \* history: the number of /create-account calls, and whether the iban of
                    \*          the last one existed before it, and with which balance
    ncalls          \* history: number of /transfer calls started

bankVars == <<accounts, heap, th, create_status, expected, create_seen, ncalls>>

\* The state of the ledger gateway and of the ledger behind it (defined further down).
VARIABLES
    tb_accounts,    \* the ledger's account records, by account id
    tb_transfers,   \* the ids of the transfers the ledger has accepted (the gateway never
                    \* reads a transfer back: only its id decides a later duplicate)
    uuid_count,     \* number of uuid.uuid4() values drawn so far
    gw,             \* the gateway call in progress: position, request, reply, result, output
    last_deposit    \* history: the arguments of a create_large_deposit call that is in
                    \*          progress or was cut off, and how many transfers the ledger
                    \*          has accepted for the logical transfer it stands for

ledgerVars == <<tb_accounts, tb_transfers, uuid_count, gw, last_deposit>>

\* The pure functions of the payment rail keep no state: what is recorded is the one
\* call made, with its arguments and what it returned or raised.
VARIABLES
    iban_call,      \* the call of an identifier generator: function, arguments, result
    pacs_call,      \* the call of generate_pacs_008: arguments and the document built
    camt_call,      \* the call of reconcile_camt053: the statement and what came back
    camt_rerun      \* a second call of reconcile_camt053 on the same statement, if made

payVars == <<iban_call, pacs_call, camt_call, camt_rerun>>

\* The objects of the mobile data extraction package.
VARIABLES
    extractor,      \* the MobileDataExtractor object: config, is_collecting, data_buffer
    ext_hist        \* history: number of calls made on it, the last one and its result

extractorVars == <<extractor, ext_hist>>

VARIABLES
    observer,       \* the DataObserver object: metrics_store, alert_rules, active_alerts
    now,            \* the wall clock, in ticks of its resolution
    obs_hist        \* history: number of calls made on it, the last one and its result

observerVars == <<observer, now, obs_hist>>

\* The private AI orchestrator.
VARIABLES
    ctl,            \* the run of main under way: position, mode, locals, calls made
    ctl_runs        \* the runs that have returned: mode, calls made, exit code

controllerVars == <<ctl, ctl_runs>>

addonVars == <<extractorVars, observerVars, controllerVars>>

vars == <<bankVars, ledgerVars, payVars, addonVars>>

\* What the bank's handlers, the gateway's steps and the generators leave alone.
notBank == <<ledgerVars, payVars, addonVars>>
notLedger == <<bankVars, payVars, addonVars>>
notIban == <<bankVars, ledgerVars, pacs_call, camt_call, camt_rerun, addonVars>>
notPacs == <<bankVars, ledgerVars, iban_call, camt_call, camt_rerun, addonVars>>
notCamt == <<bankVars, ledgerVars, iban_call, pacs_call, addonVars>>
notExtractor == <<bankVars, ledgerVars, payVars, observerVars, controllerVars>>
notObserver == <<bankVars, ledgerVars, payVars, extractorVars, controllerVars>>
notController == <<bankVars, ledgerVars, payVars, extractorVars, observerVars>>

Threads == {"t1", "t2"}

\* bank_core.generate_check_digits returns the constant "87".
generate_check_digits(bank_code, account) == "87"

\* The only iban /create-account ever builds:
\* f"LT{generate_check_digits('24001', '00001234567')}2400100001234567".
CreatedIban == "LT" \o generate_check_digits("24001", "00001234567") \o "2400100001234567"

\* The ibans a caller of /transfer may name: the one that can exist and one that cannot.
Ibans == {CreatedIban, "DE00UNKNOWN"}

Amounts == 1..MaxAmount

\* class Account(BaseModel): balance: float = 0.0
NewAccountBalance == 0

IdleThread ==
    [pc |-> "idle", from_iban |-> "", to_iban |-> "", amount |-> 0,
     obj |-> 0, tmp |-> 0, status |-> "none", legs |-> {}, unknown |-> FALSE]

BankInit ==
    /\ accounts = <<>>
    /\ heap = <<>>
    /\ th = [t \in Threads |-> IdleThread]
    /\ create_status = "none"
    /\ expected = <<>>
    /\ create_seen = [calls |-> 0, existed |-> FALSE, balance |-> 0]
    /\ ncalls = 0

\* The balance the dictionary holds for an iban_call.
BalanceOf(i) == heap[accounts[i]]

\* accounts[iban] = Account(iban=iban): a NEW object replaces whatever the key held.
StoreNewAccount(acc, iban, objId) ==
    [i \in (DOMAIN acc) \cup {iban} |-> IF i = iban THEN objId ELSE acc[i]]

\* POST /create-account (one dictionary store, atomic under the interpreter lock).
create_account ==
    /\ Len(heap) < MaxCreateCalls
    /\ create_seen' = [calls |-> create_seen.calls + 1,
                       existed |-> CreatedIban \in DOMAIN accounts,
                       balance |-> IF CreatedIban \in DOMAIN accounts
                                   THEN BalanceOf(CreatedIban) ELSE 0]
    /\ heap' = Append(heap, NewAccountBalance)
    /\ expected' = Append(expected, NewAccountBalance)
    /\ accounts' = StoreNewAccount(accounts, CreatedIban, Len(heap) + 1)
    /\ create_status' = "REAL IBAN CREATED"
    /\ UNCHANGED <<th, ncalls, notBank>>

\* POST /transfer arrives: a pool thread starts the handler with the request's arguments.
transfer_begin(t, f, c, a) ==
    /\ th[t].pc \in {"idle", "done"}
    /\ ncalls < MaxTransferCalls
    /\ ncalls' = ncalls + 1
    /\ th' = [th EXCEPT ![t] = [IdleThread EXCEPT !.pc = "L26_load", !.from_iban = f,
                                                  !.to_iban = c, !.amount = a]]
    /\ UNCHANGED <<accounts, heap, create_status, expected, create_seen, notBank>>

\* Line 26, first half: accounts[from_iban].balance is looked up and read.
\* A missing key raises KeyError, which nothing catches: the handler ends there.
transfer_L26_load(t) ==
    /\ th[t].pc = "L26_load"
    /\ IF th[t].from_iban \in DOMAIN accounts
       THEN th' = [th EXCEPT ![t].pc = "L26_store",
                             ![t].obj = accounts[th[t].from_iban],
                             ![t].tmp = heap[accounts[th[t].from_iban]]]
       ELSE th' = [th EXCEPT ![t].pc = "done", ![t].status = "KeyError",
                             ![t].unknown = TRUE]
    /\ UNCHANGED <<accounts, heap, create_status, expected, create_seen, ncalls, notBank>>

\* Line 26, second half: the difference is stored into the object that was read.
transfer_L26_store(t) ==
    /\ th[t].pc = "L26_store"
    /\ heap' = [heap EXCEPT ![th[t].obj] = th[t].tmp - th[t].amount]
    /\ expected' = [expected EXCEPT ![th[t].obj] = @ - th[t].amount]
    /\ th' = [th EXCEPT ![t].pc = "L27_load", ![t].legs = @ \cup {"debit"}]
    /\ UNCHANGED <<accounts, create_status, create_seen, ncalls, notBank>>

\* Line 27, first half: accounts[to_iban].balance is looked up and read.
transfer_L27_load(t) ==
    /\ th[t].pc = "L27_load"
    /\ IF th[t].to_iban \in DOMAIN accounts
       THEN th' = [th EXCEPT ![t].pc = "L27_store",
                             ![t].obj = accounts[th[t].to_iban],
                             ![t].tmp = heap[accounts[th[t].to_iban]]]
       ELSE th' = [th EXCEPT ![t].pc = "done", ![t].status = "KeyError",
                             ![t].unknown = TRUE]
    /\ UNCHANGED <<accounts, heap, create_status, expected, create_seen, ncalls, notBank>>

\* Line 27, second half, and the return of line 28.
transfer_L27_store(t) ==
    /\ th[t].pc = "L27_store"
    /\ heap' = [heap EXCEPT ![th[t].obj] = th[t].tmp + th[t].amount]
    /\ expected' = [expected EXCEPT ![th[t].obj] = @ + th[t].amount]
    /\ th' = [th EXCEPT ![t].pc = "done", ![t].legs = @ \cup {"credit"},
                        ![t].status = "SWIFT/SEPA TRANSFER COMPLETED"]
    /\ UNCHANGED <<accounts, create_status, create_seen, ncalls, notBank>>

BankNext ==
    \/ create_account
    \/ \E t \in Threads, f \in Ibans, c \in Ibans, a \in Amounts : transfer_begin(t, f, c, a)
    \/ \E t \in Threads : transfer_L26_load(t)
    \/ \E t \in Threads : transfer_L26_store(t)
    \/ \E t \in Threads : transfer_L27_load(t)
    \/ \E t \in Threads : transfer_L27_store(t)

\* No /transfer handler is between two of its steps.
BankQuiescent == \A t \in Threads : th[t].pc \in {"idle", "done"}

RECURSIVE SumSeq(_)
SumSeq(s) == IF s = <<>> THEN 0 ELSE s[1] + SumSeq(Tail(s))

\* The sum of the balances of all accounts the dictionary holds.
TotalBalance ==
    LET ids == {accounts[i] : i \in DOMAIN accounts}
    IN SumSeq([k \in 1..Len(heap) |-> IF k \in ids THEN heap[k] ELSE 0])

\* ------------------------------------------- . ledger/tigerbeetle_client.py

VAULT_ACCOUNT_CODE == 1001
CUSTOMER_DEPOSIT_CODE == 2001

\* The code of every transfer create_large_deposit builds (LARGE_DEPOSIT).
LARGE_DEPOSIT_CODE == 10001

\* create_account's default ledger, and the ledger of every transfer.
DEFAULT_LEDGER == 1

AccountIds == 1..MaxAccountId

\* The type codes a caller passes: the two named ones and one that is neither.
AccountCodes == {VAULT_ACCOUNT_CODE, CUSTOMER_DEPOSIT_CODE, 3001}

\* Python values the gateway functions return, and the exception of a call that
\* never got to its return statement.
PyNone == [type |-> "NoneType", val |-> "None"]
PyBool(b) == [type |-> "bool", val |-> IF b THEN "True" ELSE "False"]
Raised == [type |-> "exception", val |-> "interrupted"]

\* The two flags of line 20 the wrong way round.
AccountFlagsFor_Swapped(code) ==
    IF code = CUSTOMER_DEPOSIT_CODE THEN {"DEBITS_MUST_NOT_EXCEED_CREDITS"} ELSE {"LINKED"}

\* Line 20: flags=AccountFlags.LINKED if code == CUSTOMER_DEPOSIT_CODE
\*          else AccountFlags.DEBITS_MUST_NOT_EXCEED_CREDITS
AccountFlagsFor(code) ==
    IF code = CUSTOMER_DEPOSIT_CODE THEN {"LINKED"} ELSE {"DEBITS_MUST_NOT_EXCEED_CREDITS"}

\* Lines 13-26 with an account that starts with one unit credited.
NewAccount_Prefunded(account_id, code, ledger) ==
    [id |-> account_id, ledger |-> ledger, code |-> code, flags |-> AccountFlagsFor(code),
     debits_pending |-> 0, debits_posted |-> 0, credits_pending |-> 0, credits_posted |-> 1]

\* Lines 13-26: the Account record create_account builds.
NewAccount(account_id, code, ledger) ==
    [id |-> account_id, ledger |-> ledger, code |-> code, flags |-> AccountFlagsFor(code),
     debits_pending |-> 0, debits_posted |-> 0, credits_pending |-> 0, credits_posted |-> 0]

\* Lines 37-51: the Transfer record create_large_deposit builds; id is the uuid4 drawn.
NewTransfer(uuid, vault_id, customer_id, amount_units) ==
    [id |-> uuid, debit_account_id |-> vault_id, credit_account_id |-> customer_id,
     amount |-> amount_units, ledger |-> DEFAULT_LEDGER, code |-> LARGE_DEPOSIT_CODE,
     flags |-> {}]

\* uuid.uuid4().int: a value never drawn before (128 random bits).
FreshUuid == uuid_count + 1

IdleGateway ==
    [pc |-> "idle", op |-> "none", batch |-> <<>>, errors |-> <<>>,
     ret |-> PyNone, printed |-> <<>>]

\* ---- the ledger service, from sections 4.3 and 6 of the specification

\* Flag combinations the ledger recognizes for an account.
RecognizedAccountFlags ==
    {{}, {"LINKED"}, {"DEBITS_MUST_NOT_EXCEED_CREDITS"}, {"CREDITS_MUST_NOT_EXCEED_DEBITS"},
     {"LINKED", "DEBITS_MUST_NOT_EXCEED_CREDITS"}, {"LINKED", "CREDITS_MUST_NOT_EXCEED_DEBITS"}}

\* createAccount's outcome for one entry: "ok" or the error kind.
CreateAccountOutcome(accts, a) ==
    IF a.flags \notin RecognizedAccountFlags THEN "InvalidFlagsError"
    ELSE IF a.id \in DOMAIN accts THEN "DuplicateAccountError"
    ELSE "ok"

\* Would the debit leg of t take its debit account over its balance constraint?
ExceedsCredits(accts, t) ==
    LET d == accts[t.debit_account_id]
    IN /\ "DEBITS_MUST_NOT_EXCEED_CREDITS" \in d.flags
       /\ d.debits_pending + d.debits_posted + t.amount > d.credits_posted

\* postTransfer's outcome for one entry: "ok" or the error kind.
CreateTransferOutcome(accts, xfers, t) ==
    IF t.id \in xfers THEN "DuplicateTransferError"
    ELSE IF t.debit_account_id \notin DOMAIN accts \/ t.credit_account_id \notin DOMAIN accts
         THEN "UnknownAccountError"
    ELSE IF ExceedsCredits(accts, t) THEN "InsufficientBalanceError"
    ELSE "ok"

\* Both legs of an accepted transfer, applied together.
PostTransfer(accts, t) ==
    LET debited == [accts EXCEPT ![t.debit_account_id].debits_posted = @ + t.amount]
    IN [debited EXCEPT ![t.credit_account_id].credits_posted = @ + t.amount]

AddAccount(accts, a) ==
    [i \in (DOMAIN accts) \cup {a.id} |-> IF i = a.id THEN a ELSE accts[i]]

\* A batch of accounts, entry by entry in order: each entry succeeds or fails on
\* its own; the reply lists (index, error) for the ones that failed, from index 0.
RECURSIVE CreateAccountsFrom(_, _, _)
CreateAccountsFrom(accts, batch, k) ==
    IF k > Len(batch) THEN [accounts |-> accts, errors |-> <<>>]
    ELSE LET out == CreateAccountOutcome(accts, batch[k])
             rest == CreateAccountsFrom(IF out = "ok" THEN AddAccount(accts, batch[k])
                                        ELSE accts, batch, k + 1)
         IN [accounts |-> rest.accounts,
             errors |-> IF out = "ok" THEN rest.errors
                        ELSE <<(<<k - 1, out>>)>> \o rest.errors]

\* A batch of transfers, likewise.
RECURSIVE CreateTransfersFrom(_, _, _, _)
CreateTransfersFrom(accts, xfers, batch, k) ==
    IF k > Len(batch) THEN [accounts |-> accts, transfers |-> xfers, errors |-> <<>>]
    ELSE LET out == CreateTransferOutcome(accts, xfers, batch[k])
             rest == IF out = "ok"
                     THEN CreateTransfersFrom(PostTransfer(accts, batch[k]),
                                              xfers \cup {batch[k].id}, batch, k + 1)
                     ELSE CreateTransfersFrom(accts, xfers, batch, k + 1)
         IN [accounts |-> rest.accounts, transfers |-> rest.transfers,
             errors |-> IF out = "ok" THEN rest.errors
                        ELSE <<(<<k - 1, out>>)>> \o rest.errors]

\* ---- the gateway's steps

NoDeposit == [args |-> <<>>, posted |-> 0]

LedgerInit ==
    /\ tb_accounts = <<>>
    /\ tb_transfers = {}
    /\ uuid_count = 0
    /\ gw = IdleGateway
    /\ last_deposit = NoDeposit

\* create_account, lines 11-28: build the record and send the one-entry batch.
create_account_call(account_id, code) ==
    /\ gw.pc = "idle"
    /\ gw' = [IdleGateway EXCEPT !.pc = "waiting", !.op = "create_accounts",
                                 !.batch = <<NewAccount(account_id, code, DEFAULT_LEDGER)>>]
    /\ last_deposit' = NoDeposit
    /\ UNCHANGED <<tb_accounts, tb_transfers, uuid_count, notLedger>>

\* The ledger handles a create_accounts request and replies.
client_create_accounts ==
    /\ gw.pc = "waiting"
    /\ gw.op = "create_accounts"
    /\ LET r == CreateAccountsFrom(tb_accounts, gw.batch, 1)
       IN /\ tb_accounts' = r.accounts
          /\ gw' = [gw EXCEPT !.pc = "replied", !.errors = r.errors]
    /\ UNCHANGED <<tb_transfers, uuid_count, last_deposit, notLedger>>

\* create_account, lines 29-33: print each error and return False, or return True.
create_account_return ==
    /\ gw.pc = "replied"
    /\ gw.op = "create_accounts"
    /\ gw' = [gw EXCEPT !.pc = "idle", !.batch = <<>>,
                        !.printed = [k \in DOMAIN gw.errors |->
                                        <<"Account creation failed at index",
                                          gw.errors[k][1], gw.errors[k][2]>>],
                        !.ret = PyBool(gw.errors = <<>>)]
    /\ UNCHANGED <<tb_accounts, tb_transfers, uuid_count, last_deposit, notLedger>>

\* create_large_deposit, lines 35-53: draw a fresh transfer id, build the record
\* and send the one-entry batch.  `posted` is the number of transfers already
\* accepted for the logical transfer the caller means.
SendDeposit(vault_id, customer_id, amount_units, posted) ==
    /\ gw.pc = "idle"
    /\ uuid_count < MaxDeposits
    /\ uuid_count' = uuid_count + 1
    /\ gw' = [IdleGateway EXCEPT !.pc = "waiting", !.op = "create_transfers",
                                 !.batch = <<NewTransfer(FreshUuid, vault_id, customer_id,
                                                         amount_units)>>]
    /\ last_deposit' = [args |-> <<vault_id, customer_id, amount_units>>,
                        posted |-> posted]
    /\ UNCHANGED <<tb_accounts, tb_transfers, notLedger>>

\* A caller asks for a new deposit.
create_large_deposit_call(vault_id, customer_id, amount_units) ==
    SendDeposit(vault_id, customer_id, amount_units, 0)

\* A caller whose previous create_large_deposit call ended without a result calls
\* it again with the same arguments, for the same logical transfer.
create_large_deposit_retry ==
    /\ gw.op = "create_transfers"
    /\ gw.ret = Raised
    /\ SendDeposit(last_deposit.args[1], last_deposit.args[2], last_deposit.args[3],
                   last_deposit.posted)

\* The ledger handles a create_transfers request and replies.
client_create_transfers ==
    /\ gw.pc = "waiting"
    /\ gw.op = "create_transfers"
    /\ LET r == CreateTransfersFrom(tb_accounts, tb_transfers, gw.batch, 1)
           accepted == r.transfers \ tb_transfers
       IN /\ tb_accounts' = r.accounts
          /\ tb_transfers' = r.transfers
          /\ last_deposit' = [last_deposit EXCEPT !.posted = @ + Cardinality(accepted)]
          /\ gw' = [gw EXCEPT !.pc = "replied", !.errors = r.errors]
    /\ UNCHANGED <<uuid_count, notLedger>>

\* create_large_deposit, lines 54-60: print each error and return False, or
\* print the success line and return True.
create_large_deposit_return ==
    /\ gw.pc = "replied"
    /\ gw.op = "create_transfers"
    /\ gw' = [gw EXCEPT !.pc = "idle", !.batch = <<>>,
                        !.printed = IF gw.errors # <<>>
                                    THEN [k \in DOMAIN gw.errors |->
                                             <<"Transfer failed at index",
                                               gw.errors[k][1], gw.errors[k][2]>>]
                                    ELSE <<(<<"Success: Transferred">>)>>,
                        !.ret = PyBool(gw.errors = <<>>)]
    /\ last_deposit' = NoDeposit
    /\ UNCHANGED <<tb_accounts, tb_transfers, uuid_count, notLedger>>

\* The call is cut off after the ledger has handled the request and before the
\* function reaches its return (an exception out of the client call, the process
\* interrupted): the caller has no result, and the outcome is unknown to it.
call_interrupted ==
    /\ gw.pc = "replied"
    /\ gw' = [gw EXCEPT !.pc = "idle", !.batch = <<>>, !.ret = Raised]
    /\ UNCHANGED <<tb_accounts, tb_transfers, uuid_count, last_deposit, notLedger>>

\* The steps the gateway's own code takes once a request is out.
GatewayStep ==
    \/ create_account_return
    \/ create_large_deposit_return

LedgerNext ==
    \/ \E id \in AccountIds, code \in AccountCodes : create_account_call(id, code)
    \/ client_create_accounts
    \/ create_account_return
    \/ \E v \in AccountIds, c \in AccountIds, a \in Amounts : create_large_deposit_call(v, c, a)
    \/ create_large_deposit_retry
    \/ client_create_transfers
    \/ create_large_deposit_return
    \/ call_interrupted

\* ------------------------------------------------------- checksum utility
\* src/. ledger/. payments/payments/payments/iban_generator.py (generate_iban),
\* src/iban_generator.py (generate_real_iban) and the identifier built by
\* bank_core.create_account.  A Python str is a sequence of one-character strings.

UpperCase == <<"A", "B", "C", "D", "E", "F", "G", "H", "I", "J", "K", "L", "M",
               "N", "O", "P", "Q", "R", "S", "T", "U", "V", "W", "X", "Y", "Z">>
LowerCase == <<"a", "b", "c", "d", "e", "f", "g", "h", "i", "j", "k", "l", "m",
               "n", "o", "p", "q", "r", "s", "t", "u", "v", "w", "x", "y", "z">>
DigitChars == <<"0", "1", "2", "3", "4", "5", "6", "7", "8", "9">>

InSeq(s, c) == \E i \in 1..Len(s) : s[i] = c
IndexOf(s, c) == CHOOSE i \in 1..Len(s) : s[i] = c

\* str.isdigit / str.isalpha of one character.  The sharp s is the one letter of the
\* input alphabet outside A-Z and a-z.
isdigit(c) == InSeq(DigitChars, c)
isalpha(c) == InSeq(UpperCase, c) \/ InSeq(LowerCase, c) \/ c = "ß"

\* ord(c) of a letter.
ord(c) ==
    IF InSeq(UpperCase, c) THEN 64 + IndexOf(UpperCase, c)
    ELSE IF InSeq(LowerCase, c) THEN 96 + IndexOf(LowerCase, c)
    ELSE 223

\* c.upper() of one character: a str, and for the sharp s one of two characters.
upper(c) ==
    IF InSeq(LowerCase, c) THEN <<UpperCase[IndexOf(LowerCase, c)]>>
    ELSE IF c = "ß" THEN <<"S", "S">>
    ELSE <<c>>

\* s.upper()
RECURSIVE str_upper(_)
str_upper(s) == IF s = <<>> THEN <<>> ELSE upper(Head(s)) \o str_upper(Tail(s))

\* s.isalpha(): every character is a letter and there is at least one.
str_isalpha(s) == s # <<>> /\ \A i \in 1..Len(s) : isalpha(s[i])

\* s.replace(" ", "")
remove_spaces(s) == SelectSeq(s, LAMBDA c : c # " ")

\* s.strip(), for the one whitespace character of the input alphabet.
RECURSIVE str_strip(_)
str_strip(s) ==
    IF s = <<>> THEN s
    ELSE IF Head(s) = " " THEN str_strip(Tail(s))
    ELSE IF s[Len(s)] = " " THEN str_strip(SubSeq(s, 1, Len(s) - 1))
    ELSE s

\* str(n) of a natural number.
RECURSIVE str_of_int(_)
str_of_int(n) ==
    IF n < 10 THEN <<DigitChars[n + 1]>>
    ELSE str_of_int(n \div 10) \o <<DigitChars[(n % 10) + 1]>>

\* f"{n:02d}" of a natural number.
format_02d(n) == IF n < 10 THEN <<"0">> \o str_of_int(n) ELSE str_of_int(n)

\* int(s) succeeds on an optionally space-padded run of decimal digits.
int_parses(s) ==
    LET t == str_strip(s) IN t # <<>> /\ \A i \in 1..Len(t) : isdigit(t[i])

\* The value of a run of decimal digits.
RECURSIVE DigitsValue(_)
DigitsValue(t) ==
    IF t = <<>> THEN 0
    ELSE DigitsValue(SubSeq(t, 1, Len(t) - 1)) * 10 + (IndexOf(DigitChars, t[Len(t)]) - 1)

\* int(s) % 97.  Python's int is unbounded; the remainder is taken digit by digit,
\* which gives the same value without building the big integer.
RECURSIVE digits_mod_97(_)
digits_mod_97(t) ==
    IF t = <<>> THEN 0
    ELSE (digits_mod_97(SubSeq(t, 1, Len(t) - 1)) * 10
            + (IndexOf(DigitChars, t[Len(t)]) - 1)) % 97
int_mod_97(s) == digits_mod_97(str_strip(s))

\* What a call returned or raised.
PyStr(s) == [type |-> "str", val |-> s]
ValueError == [type |-> "ValueError", val |-> <<>>]
NotCalled == [type |-> "NoneType", val |-> <<>>]

\* iban_generator.py (payments), line 10:
\* "".join(str(ord(c.upper()) - 55) if c.isalpha() else c for c in temp)
RECURSIVE expand_upper(_)
expand_upper(temp) ==
    IF temp = <<>> THEN <<>>
    ELSE (IF isalpha(Head(temp)) THEN str_of_int(ord(Head(upper(Head(temp)))) - 55)
          ELSE <<Head(temp)>>) \o expand_upper(Tail(temp))

\* src/iban_generator.py, line 4:
\* "".join(str(ord(c) - 55) if c.isalpha() else c for c in pre)
RECURSIVE expand_raw(_)
expand_raw(pre) ==
    IF pre = <<>> THEN <<>>
    ELSE (IF isalpha(Head(pre)) THEN str_of_int(ord(Head(pre)) - 55)
          ELSE <<Head(pre)>>) \o expand_raw(Tail(pre))

\* Lines 11-12 of generate_iban with the subtraction off by one.
check_of_remainder_97(remainder) == 97 - remainder

\* Lines 11-12 of generate_iban: check = 98 - remainder.
check_of_remainder(remainder) == 98 - remainder

\* generate_iban(country_code, bank_code, account_number)
generate_iban(country_code, bank_code, account_number) ==
    LET cc == str_upper(country_code)
        bban == remove_spaces(bank_code \o account_number)
        temp == bban \o cc \o <<"0", "0">>
        expanded == expand_upper(temp)
    IN  IF Len(cc) # 2 \/ ~str_isalpha(cc) THEN ValueError
        ELSE IF ~int_parses(expanded) THEN ValueError
        ELSE PyStr(cc \o format_02d(check_of_remainder(int_mod_97(expanded))) \o bban)

\* generate_real_iban(bank_code, account)
generate_real_iban(bank_code, account) ==
    LET pre == account \o bank_code \o <<"L", "T", "0", "0">>
        num == expand_raw(pre)
    IN  IF ~int_parses(num) THEN ValueError
        ELSE PyStr(<<"L", "T">> \o format_02d(98 - int_mod_97(num)) \o bank_code \o account)

\* bank_core.py line 16, character by character:
\* f"LT{generate_check_digits('24001', '00001234567')}2400100001234567"
bank_core_bank_code == <<"2", "4", "0", "0", "1">>
bank_core_account == <<"0", "0", "0", "0", "1", "2", "3", "4", "5", "6", "7">>
bank_core_iban ==
    PyStr(<<"L", "T">> \o <<"8", "7">> \o bank_core_bank_code \o bank_core_account)

\* validate(identifier), the companion of generate: recompute the check digits from
\* the identifier's own country code and from what follows its check digits, each
\* letter standing for ord(letter) - 55, and compare.
validate(identifier) ==
    /\ Len(identifier) >= 4
    /\ LET cc == SubSeq(identifier, 1, 2)
           dd == SubSeq(identifier, 3, 4)
           bban == SubSeq(identifier, 5, Len(identifier))
           expanded == expand_raw(bban \o cc \o <<"0", "0">>)
       IN  /\ \A i \in 1..Len(expanded) : isdigit(expanded[i])
           /\ dd = format_02d(98 - digits_mod_97(expanded))

\* The arguments callers pass: country codes of up to MaxCountryLen characters,
\* bank codes and account numbers of up to MaxCodeLen characters.
CountryChars == {"L", "t", "1", " ", "ß"}
CodeChars == {"7", "B", " "}
StringsUpTo(chars, n) == UNION {[1..k -> chars] : k \in 0..n}
CountryCodes == StringsUpTo(CountryChars, MaxCountryLen)
Codes == StringsUpTo(CodeChars, MaxCodeLen)

IbanInit ==
    iban_call = [fn |-> "none", country_code |-> <<>>, bank_code |-> <<>>,
                 account_number |-> <<>>, result |-> NotCalled]

\* One call of generate_iban, with any arguments.
generate_iban_call ==
    /\ iban_call.fn = "none"
    /\ \E country_code \in CountryCodes, bank_code \in Codes, account_number \in Codes :
          iban_call' = [fn |-> "generate_iban", country_code |-> country_code,
                        bank_code |-> bank_code, account_number |-> account_number,
                        result |-> generate_iban(country_code, bank_code, account_number)]
    /\ UNCHANGED notIban

\* One call of generate_real_iban, with any arguments.
generate_real_iban_call ==
    /\ iban_call.fn = "none"
    /\ \E bank_code \in Codes, account \in Codes :
          iban_call' = [fn |-> "generate_real_iban", country_code |-> <<"L", "T">>,
                        bank_code |-> bank_code, account_number |-> account,
                        result |-> generate_real_iban(bank_code, account)]
    /\ UNCHANGED notIban

\* The identifier /create-account builds (bank_core.py line 16).
create_account_iban ==
    /\ iban_call.fn = "none"
    /\ iban_call' = [fn |-> "create_account", country_code |-> <<"L", "T">>,
                     bank_code |-> bank_core_bank_code,
                     account_number |-> bank_core_account,
                     result |-> bank_core_iban]
    /\ UNCHANGED notIban

IbanNext ==
    \/ generate_iban_call
    \/ generate_real_iban_call
    \/ create_account_iban

\* ---------------------------------------------- payment instruction builder
\* src/. ledger/. payments/pacs008_generator.py (generate_pacs_008).  A Decimal amount
\* is an integer number of thousandths, so that amounts finer than a cent exist.
\* The ids and the timestamp of lines 22, 23 and 33-35 are fresh values no later
\* line reads; the document keeps the elements whose text comes from an argument.

PyNoneStr == [type |-> "NoneType", val |-> <<>>]

\* abs(n)
Abs(n) == IF n < 0 THEN 0 - n ELSE n

\* The number of cents nearest to a thousandths, a tie going away from zero.
cents_half_up(a) == IF a % 10 >= 5 THEN (a \div 10) + 1 ELSE a \div 10

\* The number of cents nearest to a thousandths, a tie going to the even cent
\* (ROUND_HALF_EVEN, the rounding of the default decimal context).
cents_half_even(a) ==
    IF a % 10 > 5 \/ (a % 10 = 5 /\ (a \div 10) % 2 = 1) THEN (a \div 10) + 1
    ELSE a \div 10

\* f"{amount:.2f}" of a Decimal: sign, integer part, point, two digits.
format_2f(amount) ==
    LET cents == cents_half_even(Abs(amount))
    IN  (IF amount < 0 THEN <<"-">> ELSE <<>>)
            \o str_of_int(cents \div 100) \o <<".">> \o format_02d(cents % 100)

\* remittance_info[:141], one character more than line 54 keeps.
first_141(s) == SubSeq(s, 1, IF Len(s) < 141 THEN Len(s) ELSE 141)

\* remittance_info[:140]
first_140(s) == SubSeq(s, 1, IF Len(s) < 140 THEN Len(s) ELSE 140)

\* The document generate_pacs_008 serializes: the text of the elements, RmtInf being
\* the sequence of its Ustrd children (none when the element is not emitted).
generate_pacs_008(sender_iban, receiver_iban, amount, currency, remittance_info, settlement_method) ==
    [type |-> "bytes",
     doc  |-> [NbOfTxs  |-> "1",
               CtrlSum  |-> format_2f(amount),
               SttlmMtd |-> settlement_method,
               InstdAmt |-> format_2f(amount),
               Ccy      |-> currency,
               DbtrIBAN |-> sender_iban,
               CdtrIBAN |-> receiver_iban,
               RmtInf   |-> IF remittance_info.type = "str" /\ remittance_info.val # <<>>
                            THEN <<first_140(remittance_info.val)>>
                            ELSE <<>>]]

\* The arguments callers pass.  Account identifiers: what generate_iban and what
\* generate_real_iban return for bank code "7" and account number "B".
PacsIbans ==
    {generate_iban(<<"L", "T">>, <<"7">>, <<"B">>).val,
     generate_real_iban(<<"7">>, <<"B">>).val}

\* Amounts in thousandths: around zero up to MaxThousandths, and some larger ones.
PacsAmounts == (-5..MaxThousandths) \cup {-1000, 1000, 1005, 99990, 99995}

PacsCurrencies == {<<"U", "S", "D">>, <<"U", "S">>, <<"U", "5", "D">>}

\* A remittance text of n characters, the i-th one telling i modulo 10.
TextOfLength(n) == [i \in 1..n |-> DigitChars[(i % 10) + 1]]
RemittanceInfos == {PyNoneStr} \cup {PyStr(TextOfLength(n)) : n \in 0..MaxRemittanceLen}

NoDocument == [type |-> "NoneType", doc |-> <<>>]

PacsInit ==
    pacs_call = [fn |-> "none", sender_iban |-> <<>>, receiver_iban |-> <<>>,
                 amount |-> 0, currency |-> <<>>, remittance_info |-> PyNoneStr,
                 result |-> NoDocument]

\* One call of generate_pacs_008, with any arguments (settlement_method defaulted).
generate_pacs_008_call ==
    /\ pacs_call.fn = "none"
    /\ \E sender_iban \in PacsIbans, receiver_iban \in PacsIbans, amount \in PacsAmounts,
          currency \in PacsCurrencies, remittance_info \in RemittanceInfos :
          pacs_call' = [fn |-> "generate_pacs_008", sender_iban |-> sender_iban,
                        receiver_iban |-> receiver_iban, amount |-> amount,
                        currency |-> currency, remittance_info |-> remittance_info,
                        result |-> generate_pacs_008(sender_iban, receiver_iban, amount,
                                                     currency, remittance_info, "INST")]
    /\ UNCHANGED notPacs

PacsNext == generate_pacs_008_call

\* -------------------------------------------------- reconciliation engine
\* src/. ledger/. payments/payments/camt053_reconciler.py (reconcile_camt053).  The
\* statement document is the sequence of its Ntry elements, in document order.  An
\* entry is its Amt child (or none) and the text of its CdtDbtInd child (or none); an
\* Amt element is its text (or none) and the number of its child elements.  A Decimal
\* is an integer number of thousandths.

NoElement == [present |-> FALSE, text |-> PyNoneStr, children |-> 0]
AmtElement(text, children) == [present |-> TRUE, text |-> text, children |-> children]

\* `not amt_elem` (line 26): true of None, and true of an Element that has no child
\* elements, for the truth value of an xml.etree Element is that of len(element).
not_element(elem) == ~elem.present \/ elem.children = 0

\* Decimal(s) of a stripped text: an optional sign, digits, and up to three digits
\* after an optional point.  ok is FALSE where Decimal raises InvalidOperation.
decimal_of(s) ==
    LET neg == s # <<>> /\ Head(s) = "-"
        u == IF s # <<>> /\ Head(s) \in {"-", "+"} THEN Tail(s) ELSE s
        p == IF InSeq(u, ".") THEN IndexOf(u, ".") ELSE Len(u) + 1
        int_part == SubSeq(u, 1, p - 1)
        frac == SubSeq(u, p + 1, Len(u))
        padded == frac \o SubSeq(<<"0", "0", "0">>, 1, 3 - Len(frac))
        well_formed ==
            /\ Len(int_part) + Len(frac) > 0
            /\ Len(frac) <= 3
            /\ \A i \in 1..Len(int_part) : isdigit(int_part[i])
            /\ \A i \in 1..Len(frac) : isdigit(frac[i])
    IN  IF ~well_formed THEN [ok |-> FALSE, val |-> 0]
        ELSE [ok |-> TRUE,
              val |-> (IF neg THEN 0 - 1 ELSE 1)
                        * (DigitsValue(int_part) * 1000 + DigitsValue(padded))]

\* Lines 29-33: Decimal(amt_elem.text.strip()); text None has no strip, and the bare
\* except catches that as it catches a malformed number.
parse_amount(elem) ==
    IF elem.text.type # "str" THEN [ok |-> FALSE, val |-> 0]
    ELSE decimal_of(str_strip(elem.text.val))

\* Line 19.
NewSummary == [total_entries |-> 0, issues |-> <<>>, drift |-> 0, printed |-> 0]

\* Line 39 without its test: every direction is taken for a booking.
any_direction(direction) == TRUE

\* Line 39: direction in ("CRDT", "DBIT").
booked_direction(direction) == direction \in {"CRDT", "DBIT"}

\* One pass of the loop body, lines 23-49, over entry ntry.
process_entry(summary, ntry) ==
    LET counted == [summary EXCEPT !.total_entries = @ + 1]
        amount == parse_amount(ntry.amt)
        signed == IF ntry.dir = "CRDT" THEN amount.val ELSE 0 - amount.val
    IN  IF not_element(ntry.amt) THEN counted
        ELSE IF ~amount.ok
            THEN [counted EXCEPT !.issues = Append(@, "Invalid amount")]
        ELSE IF ~booked_direction(ntry.dir) THEN counted
        ELSE [counted EXCEPT !.drift = @ + signed, !.printed = @ + 1]

\* Lines 21-49: the loop over every Ntry of every Stmt.
RECURSIVE process_entries(_, _)
process_entries(summary, entries) ==
    IF entries = <<>> THEN summary
    ELSE process_entries(process_entry(summary, Head(entries)), Tail(entries))

\* reconcile_camt053(xml_content_or_path, currency): the summary returned, or the
\* ReconciliationError raised (lines 51-54; Decimal("0.01") is 10 thousandths).
raise_or_return(summary) ==
    IF Abs(summary.drift) > 10
    THEN [type |-> "ReconciliationError", summary |-> summary]
    ELSE [type |-> "dict", summary |-> summary]

reconcile_camt053(entries) == raise_or_return(process_entries(NewSummary, entries))

\* Line 19 keeping what the previous call left in its summary.
kept_summary(previous) == previous

\* Line 19 in a later call: summary is a new dict, whatever the previous call left.
next_summary(previous) == NewSummary

\* The statements callers pass: up to MaxEntries entries.
Chars_100_00 == <<"1", "0", "0", ".", "0", "0">>
Chars_99_98 == <<"9", "9", ".", "9", "8">>
Chars_99_99 == <<"9", "9", ".", "9", "9">>
AmtTexts ==
    {PyStr(Chars_100_00), PyStr(Chars_99_98), PyStr(Chars_99_99),
     PyStr(<<"a", "b", "c">>), PyNoneStr}
AmtElements == {NoElement} \cup {AmtElement(t, c) : t \in AmtTexts, c \in {0, 1}}
Directions == {"CRDT", "DBIT", "INFO", "None"}
Entries == [amt : AmtElements, dir : Directions]
Statements == UNION {[1..n -> Entries] : n \in 0..MaxEntries}

NotReconciled == [type |-> "NoneType", summary |-> NewSummary]

CamtInit ==
    /\ camt_call = [fn |-> "none", entries |-> <<>>, result |-> NotReconciled]
    /\ camt_rerun = [done |-> FALSE, result |-> NotReconciled]

\* One call of reconcile_camt053, on any statement.
reconcile_camt053_call ==
    /\ camt_call.fn = "none"
    /\ \E entries \in Statements :
          camt_call' = [fn |-> "reconcile_camt053", entries |-> entries,
                        result |-> reconcile_camt053(entries)]
    /\ UNCHANGED <<camt_rerun, notCamt>>

\* A second call of reconcile_camt053 on the statement of the first one.
reconcile_camt053_again ==
    /\ camt_call.fn = "reconcile_camt053"
    /\ ~camt_rerun.done
    /\ camt_rerun' =
          [done |-> TRUE,
           result |-> raise_or_return(
                          process_entries(next_summary(camt_call.result.summary),
                                          camt_call.entries))]
    /\ UNCHANGED <<camt_call, notCamt>>

CamtNext ==
    \/ reconcile_camt053_call
    \/ reconcile_camt053_again

\* ------------------------------------------------------ mobile data extractor
\* src/mobile-data-extraction/src/extractor.py (MobileDataExtractor).  One extractor
\* object; its methods are called one after the other, MaxExtractorCalls times.

NoConfig == [type |-> "NoneType", collection_interval_seconds |-> 0, privacy_level |-> ""]

\* ExtractionConfig(collection_interval_seconds=..., privacy_level=...)
ExtractionConfig(interval, privacy) ==
    [type |-> "ExtractionConfig", collection_interval_seconds |-> interval,
     privacy_level |-> privacy]

ExtractionConfigs == {ExtractionConfig(i, p) : i \in {30, 60}, p \in {"high", "low"}}

\* Line 98 without its test: a configuration is taken to be there.
config_never_missing(config) == FALSE

\* Line 98: `not self.config`.  An ExtractionConfig object is truthy, None is not.
config_missing(config) == config.type = "NoneType"

\* __init__, lines 85-88.
ExtractorInit ==
    /\ extractor = [config |-> NoConfig, is_collecting |-> FALSE, data_buffer |-> <<>>]
    /\ ext_hist = [calls |-> 0, op |-> "none", ret |-> PyNone]

ExtractorCalled(op, ret) ==
    /\ ext_hist.calls < MaxExtractorCalls
    /\ ext_hist' = [calls |-> ext_hist.calls + 1, op |-> op, ret |-> ret]
    /\ UNCHANGED notExtractor

\* initialize(config), lines 90-94.
initialize(config) ==
    /\ extractor' = [extractor EXCEPT !.config = config]
    /\ ExtractorCalled("initialize", PyBool(TRUE))

\* start_collection(), lines 96-103.
start_collection ==
    /\ IF config_missing(extractor.config)
       THEN /\ extractor' = extractor
            /\ ExtractorCalled("start_collection", PyBool(FALSE))
       ELSE /\ extractor' = [extractor EXCEPT !.is_collecting = TRUE]
            /\ ExtractorCalled("start_collection", PyBool(TRUE))

\* stop_collection(), lines 105-108.
stop_collection ==
    /\ extractor' = [extractor EXCEPT !.is_collecting = FALSE]
    /\ ExtractorCalled("stop_collection", PyBool(TRUE))

\* get_current_usage(), lines 110-113.
get_current_usage ==
    /\ extractor' = extractor
    /\ ExtractorCalled("get_current_usage", PyNone)

\* clear_data(), lines 120-123.
clear_data ==
    /\ extractor' = [extractor EXCEPT !.data_buffer = <<>>]
    /\ ExtractorCalled("clear_data", PyBool(TRUE))

\* No method of the class fills data_buffer; the owner of the object assigns it, as
\* test_data_clearing does (test_extractor.py lines 86-96).  An item is its
\* connection_type.
assign_data_buffer(items) ==
    /\ extractor' = [extractor EXCEPT !.data_buffer = items]
    /\ ExtractorCalled("assign_data_buffer", PyNone)

ExtractorNext ==
    \/ \E config \in ExtractionConfigs : initialize(config)
    \/ start_collection
    \/ stop_collection
    \/ get_current_usage
    \/ clear_data
    \/ \E items \in {<<"wifi">>, <<"wifi", "5g">>} : assign_data_buffer(items)

\* --------------------------------------------------------------- data observer
\* src/mobile-data-extraction/src/observer.py (DataObserver).  One observer object;
\* its methods are called one after the other, MaxObserverCalls times.  `now` is the
\* wall clock that datetime.now() reads: between two reads it has moved on by one
\* tick of its resolution or by none.

MetricNames == {"cpu", "mem"}
MetricValues == {1, 2, 3}
Thresholds == {1, 2}
AlertLevels == {"warning"}

\* MetricData(name=..., value=...), lines 26-33.
MetricData(name, value) == [name |-> name, value |-> value]

NoMetric == MetricData("", 0)

\* Line 172: f"alert_{datetime.now().timestamp()}", the text of one clock reading.
alert_id(timestamp) == [prefix |-> "alert_", timestamp |-> timestamp]

NoAlertId == [prefix |-> "", timestamp |-> 0]

\* Line 142: f"{metric_name}_{threshold}_{level.value}".
rule_id_of(metric_name, threshold, level) ==
    [metric_name |-> metric_name, threshold |-> threshold, level |-> level]

\* Lines 144-149: the dictionary entry of a rule.
AlertRule(metric_name, threshold, level) ==
    [rule_id |-> rule_id_of(metric_name, threshold, level), metric_name |-> metric_name,
     threshold |-> threshold, level |-> level, enabled |-> TRUE]

\* self.alert_rules[rule_id] = ... on an insertion-ordered dict: an entry with the
\* same key is replaced in place, a new key goes to the end.
dict_set(rules, rule) ==
    IF \E i \in DOMAIN rules : rules[i].rule_id = rule.rule_id
    THEN [i \in DOMAIN rules |-> IF rules[i].rule_id = rule.rule_id THEN rule ELSE rules[i]]
    ELSE Append(rules, rule)

\* Lines 167-169: the condition under which a rule raises an alert for a metric.
rule_matches(rule, metric) ==
    /\ rule.metric_name = metric.name
    /\ rule.enabled
    /\ metric.value > rule.threshold

\* Lines 171-179: Alert(id=..., level=..., ...), resolved defaulting to False.
Alert(id, rule, metric) ==
    [id |-> id, level |-> rule.level, metric_name |-> metric.name,
     threshold_value |-> rule.threshold, actual_value |-> metric.value,
     resolved |-> FALSE]

RECURSIVE SumTo(_, _)
SumTo(ticks, n) == IF n = 0 THEN 0 ELSE ticks[n] + SumTo(ticks, n - 1)

RECURSIVE check_alert_conditions(_, _, _, _, _)
\* _check_alert_conditions, lines 164-182, from rule number i on: the alerts appended
\* to `alerts`.  The clock reading of rule i is clock + ticks[1] + ... + ticks[i-1].
check_alert_conditions(rules, metric, alerts, ticks, i) ==
    IF i > Len(rules) THEN alerts
    ELSE IF rule_matches(rules[i], metric)
         THEN check_alert_conditions(rules, metric,
                  Append(alerts, Alert(alert_id(now + SumTo(ticks, i - 1)), rules[i], metric)),
                  ticks, i + 1)
         ELSE check_alert_conditions(rules, metric, alerts, ticks, i + 1)

\* get_active_alerts(), lines 152-154.
get_active_alerts(alerts) == SelectSeq(alerts, LAMBDA alert : ~alert.resolved)

\* Lines 158-161: the first alert with the id, 0 if the loop finds none.
first_with_id(alerts, id) ==
    IF \E i \in DOMAIN alerts : alerts[i].id = id
    THEN CHOOSE i \in DOMAIN alerts :
            /\ alerts[i].id = id
            /\ \A j \in DOMAIN alerts : alerts[j].id = id => i <= j
    ELSE 0

\* __init__, lines 106-111.
ObserverInit ==
    /\ observer = [metrics_store |-> [name \in MetricNames |-> <<>>],
                   alert_rules |-> <<>>, active_alerts |-> <<>>]
    /\ now = 0
    /\ obs_hist = [calls |-> 0, op |-> "none", ret |-> PyNone,
                   metric |-> NoMetric, alert_id |-> NoAlertId]

ObserverCalled(op, ret, metric, id) ==
    /\ obs_hist.calls < MaxObserverCalls
    /\ obs_hist' = [calls |-> obs_hist.calls + 1, op |-> op, ret |-> ret,
                    metric |-> metric, alert_id |-> id]
    /\ UNCHANGED notObserver

\* create_alert_rule(metric_name, threshold, level), lines 140-150.
create_alert_rule(metric_name, threshold, level) ==
    /\ observer' = [observer EXCEPT
           !.alert_rules = dict_set(@, AlertRule(metric_name, threshold, level))]
    /\ now' = now
    /\ ObserverCalled("create_alert_rule", PyNone, NoMetric, NoAlertId)

\* record_metric(metric), lines 119-130, with _check_alert_conditions; no callback
\* is registered.  ticks[i] is what the clock moves on by after the i-th rule, the
\* last of them up to the next call.
record_metric(metric, ticks) ==
    /\ observer' = [observer EXCEPT
           !.metrics_store[metric.name] = Append(@, metric),
           !.active_alerts = check_alert_conditions(observer.alert_rules, metric, @, ticks, 1)]
    /\ now' = now + SumTo(ticks, Len(observer.alert_rules))
    /\ ObserverCalled("record_metric", PyBool(TRUE), metric, NoAlertId)

\* acknowledge_alert(alert_id), lines 156-162.
acknowledge_alert(id) ==
    /\ LET i == first_with_id(observer.active_alerts, id)
       IN  IF i # 0
           THEN /\ observer' = [observer EXCEPT !.active_alerts[i].resolved = TRUE]
                /\ ObserverCalled("acknowledge_alert", PyBool(TRUE), NoMetric, id)
           ELSE /\ observer' = observer
                /\ ObserverCalled("acknowledge_alert", PyBool(FALSE), NoMetric, id)
    /\ now' = now

ObserverNext ==
    \/ \E metric_name \in MetricNames, threshold \in Thresholds, level \in AlertLevels :
            create_alert_rule(metric_name, threshold, level)
    \/ \E name \in MetricNames, value \in MetricValues,
          ticks \in [1..Len(observer.alert_rules) -> {0, 1}] :
            record_metric(MetricData(name, value), ticks)
    \/ \E timestamp \in 0..(now + 1) : acknowledge_alert(alert_id(timestamp))

\* ------------------------------------------------------------------ controller
\* src/controller.py with privacy_guard.py, revenue_optimizer.py, multi_cloud_sync.py
\* and analytics_engine.py.  A run of main goes through its calls one by one; `ctl`
\* holds the locals of the run under way and the calls it has made, `ctl_runs` the
\* runs that have returned.

\* A mode that is neither of the two the command line offers.
Modes == {"dry-run", "execute", "live"}

\* Line 46: choices=['dry-run','execute'].
ModeChoices == {"dry-run", "execute"}

\* MultiCloudSync.__init__, multi_cloud_sync.py lines 9-12.
MultiCloudSync_nodes ==
    << [id |-> "node-aws-1", region |-> "us-east-1", provider |-> "aws"],
       [id |-> "node-gcp-1", region |-> "europe-west1", provider |-> "gcp"] >>

\* RevenueOptimizer.__init__, revenue_optimizer.py lines 9-10, in hundredths.
cost_per_region(region) ==
    IF region = "us-east-1" THEN 10 ELSE IF region = "eu-west-1" THEN 12 ELSE 20

performance_index(region) ==
    IF region = "us-east-1" THEN 100 ELSE IF region = "eu-west-1" THEN 90 ELSE 80

\* score_node, revenue_optimizer.py lines 12-17: perf / cost, in tenths.
score_node(node) == (performance_index(node.region) * 10) \div cost_per_region(node.region)

Min(a, b) == IF a <= b THEN a ELSE b

\* Line 22: a stable sort, highest score first.  Insert one scored node behind the
\* nodes that score at least as much.
insert_by_score(sorted, item) ==
    LET k == Cardinality({i \in DOMAIN sorted : sorted[i].score >= item.score})
    IN  SubSeq(sorted, 1, k) \o <<item>> \o SubSeq(sorted, k + 1, Len(sorted))

RECURSIVE sort_by_score(_, _)
sort_by_score(scored, n) ==
    IF n = 0 THEN <<>> ELSE insert_by_score(sort_by_score(scored, n - 1), scored[n])

RECURSIVE allocate(_, _, _, _)
\* The loop of create_plan, revenue_optimizer.py lines 25-36, from node number i on.
allocate(scored, i, remaining, steps) ==
    IF i > Len(scored) \/ Min(remaining, 100) <= 0 THEN steps
    ELSE allocate(scored, i + 1, remaining - Min(remaining, 100),
             Append(steps, [action |-> "run_task", node_id |-> scored[i].node.id,
                            region |-> scored[i].node.region,
                            allocated_usd |-> Min(remaining, 100),
                            expected_score |-> scored[i].score]))

\* create_plan, revenue_optimizer.py lines 19-37.
create_plan(nodes, budget_usd) ==
    LET scored == [i \in DOMAIN nodes |-> [score |-> score_node(nodes[i]), node |-> nodes[i]]]
    IN  [steps |-> allocate(sort_by_score(scored, Len(scored)), 1, budget_usd, <<>>),
         budget |-> budget_usd]

NoPlan == [steps |-> <<>>, budget |-> 0]

\* step.get(key) is not None: the step dictionary has the key.
step_has(step, key) == key \in DOMAIN step

\* PrivacyGuard.__init__, privacy_guard.py lines 9-10.
allowed_recipients == {}

max_data_types == {"metrics", "telemetry", "aggregates"}

\* The issues verify_plan finds in one step, privacy_guard.py lines 21-24.
step_issues(step) ==
    (IF /\ step_has(step, "type") /\ step["type"] = "export"
        /\ (step_has(step, "data_type") => step["data_type"] \notin max_data_types)
     THEN <<"Export of disallowed data_type">> ELSE <<>>)
    \o
    (IF /\ step_has(step, "recipient") /\ step["recipient"] # ""
        /\ step["recipient"] \notin allowed_recipients
     THEN <<"Recipient has no consent record">> ELSE <<>>)

RECURSIVE plan_issues(_, _)
plan_issues(steps, n) ==
    IF n = 0 THEN <<>> ELSE plan_issues(steps, n - 1) \o step_issues(steps[n])

\* verify_plan, privacy_guard.py lines 16-25: (ok, issues).
verify_plan(plan) ==
    [ok |-> Len(plan_issues(plan.steps, Len(plan.steps))) = 0,
     issues |-> plan_issues(plan.steps, Len(plan.steps))]

\* simulate_plan, multi_cloud_sync.py lines 18-23.
simulate_plan(plan) ==
    [kind |-> "simulated",
     results |-> [i \in DOMAIN plan.steps |->
                    [node_id |-> plan.steps[i].node_id, status |-> "simulated"]]]

\* execute_plan, multi_cloud_sync.py lines 25-32.
execute_plan(plan) ==
    [kind |-> "executed",
     results |-> [i \in DOMAIN plan.steps |->
                    [node_id |-> plan.steps[i].node_id, status |-> "executed"]]]

NoOutcome == [kind |-> "none", results |-> <<>>]

RECURSIVE total_allocated(_, _)
total_allocated(steps, n) ==
    IF n = 0 THEN 0 ELSE total_allocated(steps, n - 1) + steps[n].allocated_usd

\* analyze, analytics_engine.py lines 10-23; the timestamp of the report is left
\* out, nothing reads it.
analyze(plan, nodes) ==
    [node_count |-> Len(nodes), step_count |-> Len(plan.steps),
     total_allocated_usd |-> total_allocated(plan.steps, Len(plan.steps))]

NoReport == [node_count |-> 0, step_count |-> 0, total_allocated_usd |-> 0]

\* No run under way.
Idle ==
    [pc |-> "idle", entry |-> "none", mode |-> "none", nodes |-> <<>>, plan |-> NoPlan,
     ok |-> FALSE, issues |-> <<>>, outcome |-> NoOutcome, report |-> NoReport,
     calls |-> <<>>]

ControllerInit ==
    /\ ctl = Idle
    /\ ctl_runs = <<>>

\* Lines 12-17: main is entered and builds its four objects.
enter_main(entry, mode) ==
    /\ ctl.pc = "idle"
    /\ Len(ctl_runs) < MaxRuns
    /\ ctl' = [Idle EXCEPT !.pc = "discover", !.entry = entry, !.mode = mode]
    /\ UNCHANGED <<ctl_runs, notController>>

\* Lines 44-48: run as a script, `--mode` one of the two choices.
script_run == \E mode \in ModeChoices : enter_main("script", mode)

\* Line 12: main(mode) called by an importer of the module.
main_call == \E mode \in Modes : enter_main("call", mode)

\* Line 20.
main_discover ==
    /\ ctl.pc = "discover"
    /\ ctl' = [ctl EXCEPT !.pc = "plan", !.nodes = MultiCloudSync_nodes,
                          !.calls = Append(@, "discover_nodes")]
    /\ UNCHANGED <<ctl_runs, notController>>

\* Line 23.
main_plan ==
    /\ ctl.pc = "plan"
    /\ ctl' = [ctl EXCEPT !.pc = "verify", !.plan = create_plan(ctl.nodes, 1000),
                          !.calls = Append(@, "create_plan")]
    /\ UNCHANGED <<ctl_runs, notController>>

\* The run returns: lines 29 and 42.
returned(run, code) == Append(ctl_runs, [mode |-> run.mode, entry |-> run.entry,
                                         ok |-> run.ok, calls |-> run.calls, code |-> code])

\* Lines 26-29.
main_verify ==
    /\ ctl.pc = "verify"
    /\ LET v == verify_plan(ctl.plan)
           run == [ctl EXCEPT !.ok = v.ok, !.issues = v.issues,
                              !.calls = Append(@, "verify_plan")]
       IN  IF ~v.ok
           THEN /\ ctl' = Idle
                /\ ctl_runs' = returned(run, 1)
           ELSE /\ ctl' = [run EXCEPT !.pc = "apply"]
                /\ ctl_runs' = ctl_runs
    /\ UNCHANGED notController

\* Line 31: the test that sends a run to the simulation.
is_dry_run(mode) == mode = "dry-run"

\* Lines 31-34.
main_simulate ==
    /\ ctl.pc = "apply"
    /\ is_dry_run(ctl.mode)
    /\ ctl' = [ctl EXCEPT !.pc = "analyze", !.outcome = simulate_plan(ctl.plan),
                          !.calls = Append(@, "simulate_plan")]
    /\ UNCHANGED <<ctl_runs, notController>>

\* Lines 35-38.
main_execute ==
    /\ ctl.pc = "apply"
    /\ ~is_dry_run(ctl.mode)
    /\ ctl' = [ctl EXCEPT !.pc = "analyze", !.outcome = execute_plan(ctl.plan),
                          !.calls = Append(@, "execute_plan")]
    /\ UNCHANGED <<ctl_runs, notController>>

\* Lines 40-42.
main_analyze ==
    /\ ctl.pc = "analyze"
    /\ LET run == [ctl EXCEPT !.report = analyze(ctl.plan, ctl.nodes),
                              !.calls = Append(@, "analyze")]
       IN  /\ ctl' = Idle
           /\ ctl_runs' = returned(run, 0)
    /\ UNCHANGED notController

ControllerNext ==
    \/ script_run
    \/ main_call
    \/ main_discover
    \/ main_plan
    \/ main_verify
    \/ main_simulate
    \/ main_execute
    \/ main_analyze

\* ------------------------------------------------- claims about bank_core.py

\* C1: no transfer is ever partially posted.  When a /transfer call has returned
\* or failed, it has applied both of its legs or none of them.
C1_NoPartialPosting ==
    \A t \in Threads :
        th[t].pc = "done" => th[t].legs \in {{}, {"debit", "credit"}}

\* C4: a transfer that names an account that does not exist ends with the
\* UnknownAccountError outcome (not an unhandled exception) and has changed no
\* balance.
C4_UnknownAccountRejected ==
    \A t \in Threads :
        (th[t].pc = "done" /\ th[t].unknown)
            => (th[t].status = "UnknownAccountError" /\ th[t].legs = {})

\* C5: creating an account whose id already exists fails with
\* DuplicateAccountError and leaves the existing account's balance as it was.
C5_DuplicateCreateRejected ==
    [][(create_seen'.calls # create_seen.calls /\ CreatedIban \in DOMAIN accounts)
          => (/\ create_status' = "DuplicateAccountError"
              /\ CreatedIban \in DOMAIN accounts'
              /\ heap'[accounts'[CreatedIban]] = heap[accounts[CreatedIban]])]_vars

\* A state right after /create-account has replaced an account that held a
\* non-zero balance by a fresh one.
C5_BalanceResetReached ==
    /\ create_seen.existed
    /\ create_seen.balance # 0
    /\ BalanceOf(CreatedIban) = 0
    /\ create_status = "REAL IBAN CREATED"

\* C6: concurrent transfers on a shared account serialize at that account.  Once
\* all handlers have finished, every balance is what the applied legs give in a
\* sequential order (legs are additions, so every order gives the same sum: no
\* update is lost), and no state shows a transfer with only one leg applied.
C6_SerializedAtAccount ==
    /\ BankQuiescent => heap = expected
    /\ \A t \in Threads : th[t].legs \in {{}, {"debit", "credit"}}

\* Two transfers of the one account to itself have both completed, nothing else
\* ran, and the balance is not the 0 that either sequential order leaves.
C6_LostUpdateReached ==
    /\ ncalls = 2
    /\ Len(heap) = 1
    /\ \A t \in Threads :
          /\ th[t].pc = "done"
          /\ th[t].status = "SWIFT/SEPA TRANSFER COMPLETED"
          /\ th[t].from_iban = CreatedIban
          /\ th[t].to_iban = CreatedIban
    /\ heap[1] # 0

\* C7: balance conservation.  Whenever no handler is running, the balances of
\* all accounts sum to their initial value, 0.
C7_BalanceConservation ==
    BankQuiescent => TotalBalance = 0


\* ------------------------------------------- claims about the ledger gateway

\* C2: posting is idempotent in the transfer id.  A logical transfer that the
\* caller submits again after an unknown outcome is posted once: no two accepted
\* transfers stand for the same logical transfer.
C2_TransferPostedOnce ==
    last_deposit.posted <= 1

\* One logical deposit has been posted under two transfer ids and the credit
\* account's posted credits hold its amount twice.
C2_DoublePostReached ==
    /\ last_deposit.posted = 2
    /\ Cardinality(tb_transfers) = 2
    /\ last_deposit.args[1] # last_deposit.args[2]
    /\ tb_accounts[last_deposit.args[2]].credits_posted = 2 * last_deposit.args[3]

\* The debit leg of transfer t would take a vault account past its credits.
VaultDebitWouldExceed(t) ==
    /\ t.debit_account_id \in DOMAIN tb_accounts
    /\ t.credit_account_id \in DOMAIN tb_accounts
    /\ LET d == tb_accounts[t.debit_account_id]
       IN /\ d.code = VAULT_ACCOUNT_CODE
          /\ d.debits_pending + d.debits_posted + t.amount > d.credits_posted

\* C3: a transfer whose debit leg would violate a vault account's balance
\* constraint is rejected with InsufficientBalanceError and changes no balance;
\* so in every reachable state no vault account has posted debits above its
\* posted credits.
C3_VaultNeverOverdrawn ==
    /\ [](\A id \in DOMAIN tb_accounts :
             tb_accounts[id].code = VAULT_ACCOUNT_CODE
                => tb_accounts[id].debits_posted <= tb_accounts[id].credits_posted)
    /\ [][(/\ gw.pc = "waiting"
           /\ gw.op = "create_transfers"
           /\ gw'.pc = "replied"
           /\ VaultDebitWouldExceed(gw.batch[1]))
             => (/\ gw'.errors = <<(<<0, "InsufficientBalanceError">>)>>
                 /\ tb_accounts' = tb_accounts
                 /\ tb_transfers' = tb_transfers)]_vars

\* A vault account that has been credited was asked for more than it holds, and
\* the ledger has refused the transfer.
C3_OverdrawRefusedReached ==
    /\ gw.pc = "replied"
    /\ gw.op = "create_transfers"
    /\ gw.errors = <<(<<0, "InsufficientBalanceError">>)>>
    /\ gw.batch[1].debit_account_id \in DOMAIN tb_accounts
    /\ LET d == tb_accounts[gw.batch[1].debit_account_id]
       IN /\ d.code = VAULT_ACCOUNT_CODE
          /\ d.credits_posted > 0

\* C8: a batch's result is the list of (index, error) pairs of exactly the
\* entries that failed.  Whenever a gateway call has returned and an entry of its
\* batch failed, the value returned is a list whose indices are the failed ones.
C8_ResultListsFailedEntries ==
    (gw.pc = "idle" /\ gw.ret.type \notin {"NoneType", "exception"} /\ gw.errors # <<>>)
        => (/\ gw.ret.type = "list"
            /\ {gw.ret.val[k][1] : k \in DOMAIN gw.ret.val}
                 = {gw.errors[k][1] : k \in DOMAIN gw.errors})

\* C9: the flag policy.  A vault code gives the debits-must-not-exceed-credits
\* constraint, a customer-custody code gives the linked flag, and any other
\* code fails with InvalidFlagsError and creates no account.
C9_FlagPolicy ==
    /\ \A id \in DOMAIN tb_accounts :
          \/ /\ tb_accounts[id].code = VAULT_ACCOUNT_CODE
             /\ tb_accounts[id].flags = {"DEBITS_MUST_NOT_EXCEED_CREDITS"}
          \/ /\ tb_accounts[id].code = CUSTOMER_DEPOSIT_CODE
             /\ tb_accounts[id].flags = {"LINKED"}
    /\ (/\ gw.pc = "replied"
        /\ gw.op = "create_accounts"
        /\ gw.batch[1].code \notin {VAULT_ACCOUNT_CODE, CUSTOMER_DEPOSIT_CODE})
          => gw.errors = <<(<<0, "InvalidFlagsError">>)>>

\* C10: every gateway operation eventually returns.  While a call waits for the
\* ledger's answer, the gateway can end it on its own with GatewayTimeoutError
\* (a step that does not need the ledger to answer).
C10_WaitingCallCanTimeOut ==
    gw.pc = "waiting"
        => ENABLED (/\ GatewayStep
                    /\ gw'.pc = "idle"
                    /\ gw'.ret = [type |-> "exception", val |-> "GatewayTimeoutError"])

\* C26: a vault account carries the debits-must-not-exceed-credits constraint from
\* creation and starts with all counters at zero; a deposit that debits a vault
\* account which has never been credited is refused for every amount > 0 and leaves
\* every account as it was, so such a vault is never debited.
C26_UncreditedVaultDepositRefused ==
    /\ [](\A i \in DOMAIN tb_accounts :
            (tb_accounts[i].code = VAULT_ACCOUNT_CODE /\ tb_accounts[i].credits_posted = 0)
                => tb_accounts[i].debits_posted = 0)
    /\ [][/\ \A i \in (DOMAIN tb_accounts') \ (DOMAIN tb_accounts) :
               /\ tb_accounts'[i].debits_posted = 0
               /\ tb_accounts'[i].credits_posted = 0
               /\ tb_accounts'[i].debits_pending = 0
               /\ tb_accounts'[i].credits_pending = 0
               /\ tb_accounts'[i].code = VAULT_ACCOUNT_CODE
                     => "DEBITS_MUST_NOT_EXCEED_CREDITS" \in tb_accounts'[i].flags
          /\ (/\ gw.pc = "waiting"
              /\ gw.op = "create_transfers"
              /\ gw'.pc = "replied"
              /\ gw.batch[1].debit_account_id \in DOMAIN tb_accounts
              /\ tb_accounts[gw.batch[1].debit_account_id].code = VAULT_ACCOUNT_CODE
              /\ tb_accounts[gw.batch[1].debit_account_id].credits_posted = 0)
                => /\ gw'.errors # <<>>
                   /\ tb_accounts' = tb_accounts
                   /\ tb_transfers' = tb_transfers]_vars

\* The example sequence has run: vault 1 and customer 2 exist, the deposit from the
\* vault to the customer has returned False, and both keep zero posted balances.
C26_ExampleDepositFailedReached ==
    /\ DOMAIN tb_accounts = {1, 2}
    /\ tb_accounts[1].code = VAULT_ACCOUNT_CODE
    /\ tb_accounts[2].code = CUSTOMER_DEPOSIT_CODE
    /\ gw.pc = "idle"
    /\ gw.op = "create_transfers"
    /\ gw.ret = PyBool(FALSE)
    /\ gw.errors = <<(<<0, "InsufficientBalanceError">>)>>
    /\ tb_transfers = {}
    /\ \A i \in {1, 2} : tb_accounts[i].debits_posted = 0 /\ tb_accounts[i].credits_posted = 0

\* ------------------------------------------ claims about the checksum utility

\* A country code of exactly two letters A-Z or a-z.
TwoAsciiLetters(s) ==
    Len(s) = 2 /\ \A i \in 1..2 : InSeq(UpperCase, s[i]) \/ InSeq(LowerCase, s[i])

\* C11: round trip.  For every valid (countryCode, bankCode, accountNumber), bank
\* codes and account numbers with letters or spaces included, every generator of the
\* repository returns an identifier, and that identifier passes validate.
C11_RoundTrip ==
    (/\ iban_call.fn # "none"
     /\ iban_call.fn = "generate_iban" => TwoAsciiLetters(iban_call.country_code))
        => /\ iban_call.result.type = "str"
           /\ validate(iban_call.result.val)

C13_CheckDigitsFormula ==
    (iban_call.fn \in {"generate_iban", "generate_real_iban"} /\ iban_call.result.type = "str")
        => LET id == iban_call.result.val
               bban == remove_spaces(iban_call.bank_code \o iban_call.account_number)
               N == expand_upper(bban \o SubSeq(id, 1, 2) \o <<"0", "0">>)
           IN  /\ SubSeq(id, 3, 4) = format_02d(98 - digits_mod_97(N))
               /\ SubSeq(id, 5, Len(id)) = bban

\* C14: generate raises its input-validation error, and returns no identifier,
\* exactly when the country code is not two alphabetic characters.
C14_CountryCodeRejection ==
    iban_call.fn = "generate_iban"
        => (iban_call.result.type = "ValueError"
              <=> ~(Len(iban_call.country_code) = 2 /\ str_isalpha(iban_call.country_code)))

\* ------------------------------- claims about the payment instruction builder

\* An amount text with exactly two decimal digits: optional minus sign, at least one
\* digit, a point, two digits.
HasTwoDecimals(t) ==
    LET u == IF t # <<>> /\ Head(t) = "-" THEN Tail(t) ELSE t
    IN  /\ Len(u) >= 4
        /\ u[Len(u) - 2] = "."
        /\ \A i \in 1..Len(u) : i # Len(u) - 2 => isdigit(u[i])

\* The amount such a text denotes, in thousandths.
ThousandthsOf(t) ==
    LET neg == Head(t) = "-"
        u == IF neg THEN Tail(t) ELSE t
        v == DigitsValue(SubSeq(u, 1, Len(u) - 3)) * 1000
                + DigitsValue(SubSeq(u, Len(u) - 1, Len(u))) * 10
    IN  IF neg THEN 0 - v ELSE v

\* C15 as stated: the document has transaction count 1, CtrlSum and InstdAmt are one
\* string with exactly two decimal digits, and that string denotes the amount passed.
C15_ControlSumIsAmountPassed ==
    pacs_call.fn = "generate_pacs_008"
        => /\ pacs_call.result.type = "bytes"
           /\ pacs_call.result.doc.NbOfTxs = "1"
           /\ pacs_call.result.doc.CtrlSum = pacs_call.result.doc.InstdAmt
           /\ HasTwoDecimals(pacs_call.result.doc.CtrlSum)
           /\ ThousandthsOf(pacs_call.result.doc.CtrlSum) = pacs_call.amount

\* C15, amended: the document has transaction count 1, CtrlSum and InstdAmt are one
\* string with exactly two decimal digits, and that string denotes the amount passed
\* rounded to two decimal places, a tie going to the even cent; it denotes the amount
\* itself when the amount has at most two decimal places.
C15_ControlSumIsRoundedAmount ==
    pacs_call.fn = "generate_pacs_008"
        => /\ pacs_call.result.type = "bytes"
           /\ pacs_call.result.doc.NbOfTxs = "1"
           /\ pacs_call.result.doc.CtrlSum = pacs_call.result.doc.InstdAmt
           /\ HasTwoDecimals(pacs_call.result.doc.CtrlSum)
           /\ LET v == ThousandthsOf(pacs_call.result.doc.CtrlSum)
                  m == pacs_call.amount
              IN  /\ Abs(v - m) <= 5
                  /\ Abs(v - m) = 5 => (Abs(v) \div 10) % 2 = 0
                  /\ m % 10 = 0 => v = m

\* A document was built for an amount that lies exactly between two cents.
C15_TieRoundedReached ==
    /\ pacs_call.fn = "generate_pacs_008"
    /\ pacs_call.amount = 1005
    /\ pacs_call.result.doc.CtrlSum = <<"1", ".", "0", "0">>
    /\ pacs_call.result.doc.InstdAmt = <<"1", ".", "0", "0">>

\* The remittance text of a document: the text of its Ustrd element, nothing when
\* the document has no RmtInf element.
RemittanceTextOf(doc) == IF doc.RmtInf = <<>> THEN <<>> ELSE doc.RmtInf[1]

\* C16: remittance text of any length L never makes build fail, and the remittance
\* text of the output is the first min(L, 140) characters of the input: exactly 140
\* characters when L > 140.
C16_RemittanceTruncated ==
    (pacs_call.fn = "generate_pacs_008" /\ pacs_call.remittance_info.type = "str")
        => LET text == pacs_call.remittance_info.val
               out == RemittanceTextOf(pacs_call.result.doc)
           IN  /\ pacs_call.result.type = "bytes"
               /\ Len(out) = (IF Len(text) < 140 THEN Len(text) ELSE 140)
               /\ \A i \in 1..Len(out) : out[i] = text[i]
               /\ Len(text) > 140 => Len(out) = 140
               /\ Len(pacs_call.result.doc.RmtInf) <= 1

\* A document was built from a remittance text of more than 140 characters.
C16_LongRemittanceReached ==
    /\ pacs_call.fn = "generate_pacs_008"
    /\ pacs_call.remittance_info.type = "str"
    /\ Len(pacs_call.remittance_info.val) > 140
    /\ Len(RemittanceTextOf(pacs_call.result.doc)) = 140

\* A currency code of three letters.
ThreeLetterCode(s) == Len(s) = 3 /\ str_isalpha(s)

\* C17: build produces no document for an amount <= 0, for a currency that is not
\* a 3-letter code, or for a debtor or creditor identifier that fails validate: a
\* document is produced only when all three preconditions hold.
C17_PreconditionsEnforced ==
    (pacs_call.fn = "generate_pacs_008" /\ pacs_call.result.type = "bytes")
        => /\ pacs_call.amount > 0
           /\ ThreeLetterCode(pacs_call.currency)
           /\ validate(pacs_call.sender_iban)
           /\ validate(pacs_call.receiver_iban)

\* ----------------------------------- claims about the reconciliation engine

\* An entry with an amount that parses and a CRDT or DBIT direction.
ValidEntry(ntry) ==
    ntry.amt.present /\ parse_amount(ntry.amt).ok /\ ntry.dir \in {"CRDT", "DBIT"}

\* An entry whose Amt element holds a text that is no decimal number.
UnparseableEntry(ntry) ==
    ntry.amt.present /\ ntry.amt.text.type = "str" /\ ~parse_amount(ntry.amt).ok

\* A leaf Amt element, as a statement document carries it, with the given text.
LeafAmt(chars) == AmtElement(PyStr(chars), 0)

\* The exact sum of the signed amounts of the valid entries: + for CRDT, - for DBIT.
RECURSIVE SignedSum(_)
SignedSum(entries) ==
    IF entries = <<>> THEN 0
    ELSE (IF ~ValidEntry(Head(entries)) THEN 0
          ELSE IF Head(entries).dir = "CRDT" THEN parse_amount(Head(entries).amt).val
          ELSE 0 - parse_amount(Head(entries).amt).val) + SignedSum(Tail(entries))

\* C18: reconcile raises ReconciliationError if and only if the absolute value of
\* the sum of the signed amounts of the valid entries exceeds 0.01.
C18_RaisesIffDriftExceedsTolerance ==
    camt_call.fn = "reconcile_camt053"
        => (camt_call.result.type = "ReconciliationError"
              <=> Abs(SignedSum(camt_call.entries)) > 10)

\* The statement of +100.00 CRDT and 99.98 DBIT was reconciled and a report came back.
C18_DriftNotRaisedReached ==
    /\ camt_call.fn = "reconcile_camt053"
    /\ camt_call.entries = <<[amt |-> LeafAmt(Chars_100_00), dir |-> "CRDT"],
                             [amt |-> LeafAmt(Chars_99_98), dir |-> "DBIT"]>>
    /\ camt_call.result.type = "dict"
    /\ camt_call.result.summary.drift = 0

\* C19: a statement of N valid entries and one entry with an unparseable amount, in
\* any order (the valid ones summing to within the tolerance, so that a report is
\* due), yields a report with total_entries = N + 1, exactly one issue and a drift
\* equal to the signed sum of the N valid entries.
C19_UnparseableAmountIsOneIssue ==
    (/\ camt_call.fn = "reconcile_camt053"
     /\ \E k \in 1..Len(camt_call.entries) :
          /\ UnparseableEntry(camt_call.entries[k])
          /\ \A i \in 1..Len(camt_call.entries) :
                i # k => ValidEntry(camt_call.entries[i])
     /\ Abs(SignedSum(camt_call.entries)) <= 10)
        => /\ camt_call.result.type = "dict"
           /\ camt_call.result.summary.total_entries = Len(camt_call.entries)
           /\ Len(camt_call.result.summary.issues) = 1
           /\ camt_call.result.summary.drift = SignedSum(camt_call.entries)

\* An entry with the amount text "abc" was reconciled and the report has no issue.
C19_IssueNotRecordedReached ==
    /\ camt_call.fn = "reconcile_camt053"
    /\ camt_call.entries = <<[amt |-> LeafAmt(<<"a", "b", "c">>), dir |-> "CRDT"]>>
    /\ camt_call.result.type = "dict"
    /\ camt_call.result.summary.issues = <<>>

\* C20: for a statement whose valid entries have signed amounts summing to zero
\* (and that holds no entry with an unparseable amount, which C19 makes an issue),
\* reconcile does not raise and returns a report with no issue and a drift of zero.
C20_ZeroSumReport ==
    (/\ camt_call.fn = "reconcile_camt053"
     /\ \A i \in 1..Len(camt_call.entries) :
          camt_call.entries[i].amt.present => parse_amount(camt_call.entries[i].amt).ok
     /\ SignedSum(camt_call.entries) = 0)
        => /\ camt_call.result.type = "dict"
           /\ camt_call.result.summary.issues = <<>>
           /\ camt_call.result.summary.drift = 0

\* A statement of +100.00 CRDT and 100.00 DBIT, the second Amt element having a child
\* element, was reconciled and ReconciliationError was raised.
C20_ZeroSumRaisedReached ==
    /\ camt_call.fn = "reconcile_camt053"
    /\ camt_call.entries = <<[amt |-> LeafAmt(Chars_100_00), dir |-> "CRDT"],
                             [amt |-> AmtElement(PyStr(Chars_100_00), 1), dir |-> "DBIT"]>>
    /\ camt_call.result.type = "ReconciliationError"

\* The statement without its i-th entry.
WithoutEntry(entries, i) == SubSeq(entries, 1, i - 1) \o SubSeq(entries, i + 1, Len(entries))

\* Entry i is skipped silently: the summary is the one the statement without that
\* entry gives, but for total_entries, which counts it.
SkippedSilently(entries, i) ==
    LET with == process_entries(NewSummary, entries)
        without == process_entries(NewSummary, WithoutEntry(entries, i))
    IN  /\ with.drift = without.drift
        /\ with.issues = without.issues
        /\ with.total_entries = without.total_entries + 1

\* C21 as stated: every entry whose direction is missing or is neither CRDT nor DBIT
\* is skipped silently (no drift, no issue, counted in total_entries), and an entry
\* that lacks a CRDT/DBIT direction or a parseable amount leaves drift alone.
C21_OtherDirectionSkippedSilently ==
    camt_call.fn = "reconcile_camt053"
        => \A i \in 1..Len(camt_call.entries) :
              /\ camt_call.entries[i].dir \notin {"CRDT", "DBIT"}
                    => SkippedSilently(camt_call.entries, i)
              /\ ~ValidEntry(camt_call.entries[i])
                    => process_entries(NewSummary, camt_call.entries).drift
                         = process_entries(NewSummary,
                                           WithoutEntry(camt_call.entries, i)).drift

\* C21, amended: every entry whose direction is missing or is neither CRDT nor DBIT,
\* and whose Amt element, if it has one, holds a parseable amount, is skipped
\* silently (no drift, no issue, counted in total_entries); and an entry that lacks
\* a CRDT/DBIT direction or a parseable amount leaves drift alone.
C21_OtherDirectionSkippedUnlessUnparseable ==
    camt_call.fn = "reconcile_camt053"
        => \A i \in 1..Len(camt_call.entries) :
              /\ (/\ camt_call.entries[i].dir \notin {"CRDT", "DBIT"}
                  /\ camt_call.entries[i].amt.present
                        => parse_amount(camt_call.entries[i].amt).ok)
                    => SkippedSilently(camt_call.entries, i)
              /\ ~ValidEntry(camt_call.entries[i])
                    => process_entries(NewSummary, camt_call.entries).drift
                         = process_entries(NewSummary,
                                           WithoutEntry(camt_call.entries, i)).drift

\* A statement was reconciled in which an informational entry, whose amount was read
\* (its Amt element has a child element), stands beside a credit that was summed.
C21_InformationalEntryReached ==
    /\ camt_call.fn = "reconcile_camt053"
    /\ camt_call.entries = <<[amt |-> AmtElement(PyStr(Chars_100_00), 1), dir |-> "INFO"],
                             [amt |-> AmtElement(PyStr(Chars_99_98), 1), dir |-> "CRDT"]>>
    /\ camt_call.result.summary.drift = 99980
    /\ camt_call.result.summary.total_entries = 2
    /\ camt_call.result.summary.issues = <<>>

C24_NoCollectionBeforeInitialize ==
    /\ [](extractor.is_collecting => extractor.config.type = "ExtractionConfig")
    /\ [][ext_hist'.calls # ext_hist.calls
            => /\ (ext_hist'.op = "start_collection"
                      /\ extractor.config.type = "NoneType")
                     => /\ ext_hist'.ret = PyBool(FALSE)
                        /\ ~extractor.is_collecting
                        /\ ~extractor'.is_collecting
               /\ (ext_hist'.op = "start_collection"
                      /\ extractor.config.type = "ExtractionConfig")
                     => /\ ext_hist'.ret = PyBool(TRUE)
                        /\ extractor'.is_collecting
               /\ ext_hist'.op = "stop_collection"
                     => /\ ext_hist'.ret = PyBool(TRUE)
                        /\ ~extractor'.is_collecting
               /\ ext_hist'.op = "clear_data"
                     => /\ extractor'.is_collecting = extractor.is_collecting
                        /\ extractor'.config = extractor.config]_vars

\* clear_data has emptied a filled buffer of an extractor that is collecting.
C24_ClearedWhileCollectingReached ==
    /\ ext_hist.op = "clear_data"
    /\ ext_hist.calls = MaxExtractorCalls
    /\ extractor.is_collecting
    /\ extractor.data_buffer = <<>>

\* ----------------------------------------------- claims about the data observer

\* The alerts of the list that are not resolved and carry the id.
ActiveWithId(alerts, id) ==
    {i \in DOMAIN alerts : alerts[i].id = id /\ ~alerts[i].resolved}

\* The rules that a metric sets off.
MatchingRules(rules, metric) == {i \in DOMAIN rules : rule_matches(rules[i], metric)}

\* C23: alert life cycle.  record_metric adds one unresolved alert per enabled rule
\* of the metric's name whose threshold the value exceeds (none for a value equal to
\* or below it); acknowledge_alert with the id of an existing alert returns True and
\* no alert with that id appears in get_active_alerts afterwards; with an unknown id
\* it returns False and changes nothing.
C23_AlertLifeCycle ==
    [][obs_hist'.calls # obs_hist.calls
        => /\ obs_hist'.op = "record_metric"
                 => LET old == observer.active_alerts
                        new == observer'.active_alerts
                        n == Cardinality({i \in DOMAIN observer.alert_rules :
                                 /\ observer.alert_rules[i].metric_name = obs_hist'.metric.name
                                 /\ observer.alert_rules[i].threshold < obs_hist'.metric.value})
                    IN  /\ Len(new) = Len(old) + n
                        /\ SubSeq(new, 1, Len(old)) = old
                        /\ \A i \in (Len(old) + 1)..Len(new) : ~new[i].resolved
           /\ (obs_hist'.op = "acknowledge_alert"
                  /\ \E i \in DOMAIN observer.active_alerts :
                        observer.active_alerts[i].id = obs_hist'.alert_id)
                 => /\ obs_hist'.ret = PyBool(TRUE)
                    /\ \A i \in DOMAIN get_active_alerts(observer'.active_alerts) :
                          get_active_alerts(observer'.active_alerts)[i].id # obs_hist'.alert_id
           /\ (obs_hist'.op = "acknowledge_alert"
                  /\ \A i \in DOMAIN observer.active_alerts :
                        observer.active_alerts[i].id # obs_hist'.alert_id)
                 => /\ obs_hist'.ret = PyBool(FALSE)
                    /\ observer' = observer]_vars

\* acknowledge_alert has returned True and an alert with the acknowledged id is
\* still among the active ones.
C23_AcknowledgedStillActiveReached ==
    /\ obs_hist.op = "acknowledge_alert"
    /\ obs_hist.ret = PyBool(TRUE)
    /\ \E i \in DOMAIN get_active_alerts(observer.active_alerts) :
          get_active_alerts(observer.active_alerts)[i].id = obs_hist.alert_id

\* C27: alert ids identify alerts uniquely.  No two alerts share an id, after
\* acknowledge_alert(id) has returned True no unresolved alert with that id remains,
\* and a resolved alert never becomes active again.
C27_AlertIdsUnique ==
    /\ [](\A i, j \in DOMAIN observer.active_alerts :
              i # j => observer.active_alerts[i].id # observer.active_alerts[j].id)
    /\ []((obs_hist.op = "acknowledge_alert" /\ obs_hist.ret = PyBool(TRUE))
              => ActiveWithId(observer.active_alerts, obs_hist.alert_id) = {})
    /\ [][\A i \in DOMAIN observer.active_alerts :
              observer.active_alerts[i].resolved
                  => /\ i \in DOMAIN observer'.active_alerts
                     /\ observer'.active_alerts[i].id = observer.active_alerts[i].id
                     /\ observer'.active_alerts[i].resolved]_vars

\* One record_metric has set off two rules and both alerts carry the same id.
C27_SharedIdReached ==
    /\ obs_hist.op = "record_metric"
    /\ Cardinality(MatchingRules(observer.alert_rules, obs_hist.metric)) >= 2
    /\ \E i, j \in DOMAIN observer.active_alerts :
          /\ i # j
          /\ observer.active_alerts[i].id = observer.active_alerts[j].id
          /\ ~observer.active_alerts[i].resolved
          /\ ~observer.active_alerts[j].resolved

\* ------------------------------------------------- claims about the controller

Called(calls, name) == \E i \in DOMAIN calls : calls[i] = name

\* C25: the orchestrator is conservative in its ordering.  execute_plan is called
\* only after verify_plan has accepted the plan and only when the mode is 'execute';
\* in dry-run mode it is never called; a run whose plan the privacy guard rejects
\* returns 1 and has not simulated, executed or analyzed the plan.
C25_ExecuteOnlyVerifiedInExecuteMode ==
    /\ [](Called(ctl.calls, "execute_plan")
             => /\ ctl.mode = "execute"
                /\ ctl.ok
                /\ \E i, j \in DOMAIN ctl.calls :
                      i < j /\ ctl.calls[i] = "verify_plan" /\ ctl.calls[j] = "execute_plan")
    /\ [](\A r \in DOMAIN ctl_runs :
             /\ Called(ctl_runs[r].calls, "execute_plan")
                   => ctl_runs[r].mode = "execute" /\ ctl_runs[r].ok
             /\ ctl_runs[r].mode = "dry-run" => ~Called(ctl_runs[r].calls, "execute_plan")
             /\ ~ctl_runs[r].ok
                   => /\ ctl_runs[r].code = 1
                      /\ ~Called(ctl_runs[r].calls, "simulate_plan")
                      /\ ~Called(ctl_runs[r].calls, "execute_plan")
                      /\ ~Called(ctl_runs[r].calls, "analyze"))

\* A run in a mode other than 'dry-run' and 'execute' has executed its plan and
\* returned 0.
C25_ExecutedInOtherModeReached ==
    \E r \in DOMAIN ctl_runs :
        /\ ctl_runs[r].mode \notin {"dry-run", "execute"}
        /\ Called(ctl_runs[r].calls, "execute_plan")
        /\ ctl_runs[r].code = 0

Init ==
    /\ BankInit /\ LedgerInit /\ IbanInit /\ PacsInit /\ CamtInit
    /\ ExtractorInit /\ ObserverInit /\ ControllerInit

SpecBank == Init /\ [][BankNext]_vars

SpecLedger == Init /\ [][LedgerNext]_vars

SpecIban == Init /\ [][IbanNext]_vars

SpecPacs == Init /\ [][PacsNext]_vars

SpecCamt == Init /\ [][CamtNext]_vars

SpecExtractor == Init /\ [][ExtractorNext]_vars

SpecObserver == Init /\ [][ObserverNext]_vars

SpecController == Init /\ [][ControllerNext]_vars

====
